---- MODULE Spec2Model ----
(***************************************************************************)
(* Model of mergeCssPlugin (src/src/index.ts): the directory scan, the     *)
(* change detector, the merge, the symlink based publication               *)
(* (atomicStyleUpdate) and the plugin operations onSuccess / onClear /     *)
(* dispose, one action per awaited filesystem call.                        *)
(*                                                                         *)
(* A text is a sequence of tokens: NL is the newline character, every      *)
(* other token is one CSS rule.  A file of the output directory is a       *)
(* record [exists, partial, text]; partial means that a writeFile has      *)
(* truncated the file and has not yet written all of its data.             *)
(***************************************************************************)
EXTENDS Integers, Sequences, FiniteSets, TLC

----------------------------------------------------------------------------
(* Bounds of the model *)

NumPaths == 2
MaxCalls == 3
MaxEdits == 1
MaxFaults == 1
MaxOverlapCalls == 2

(* Program constants *)

NL == 0
batchSize == 5

----------------------------------------------------------------------------
(* The files of the output directory.  A file is named by a number; where  *)
(* it lies and whether its name ends in .module.css is fixed by the number: *)
(* path 1 lies directly in outputDir, the paths 2..NumPaths in the          *)
(* subdirectory "nested"; the paths from 101 on lie in other places.        *)

Paths == 1..NumPaths
NestedPaths == {p \in Paths : p > 1}
FragTexts == {<<>>, <<1>>, <<2>>}

\* the directory of a file, as the names from outputDir down to it
dirOf(p) ==
  CASE p = 1   -> <<>>
    [] p = 101 -> <<"node_modules">>
    [] p = 102 -> <<"nested", "node_modules">>
    [] p = 103 -> <<"nested", "deep">>
    [] p = 104 -> <<>>                       \* notes.css
    [] p = 105 -> <<"node_modules", "pkg">>
    [] p = 107 -> <<>>                       \* merged.module.css
    [] OTHER   -> <<"nested">>

\* pattern.test(entry.name) with /\.module\.css$/
Matches(p) == p # 104

\* the files of the wider trees and their contents
OtherPaths == {101, 102, 103, 104, 105, 107}
OtherTexts ==
  [p \in OtherPaths |->
     CASE p = 103 -> {<<11>>, <<12>>}
       [] p \in {101, 102, 105} -> {<<31>>}
       [] p = 104 -> {<<32>>}
       [] p = 107 -> {<<33>>}]

\* the directories in the order in which readdir lists them
DirNames == <<"deep", "nested", "node_modules", "pkg">>
Buffers == {"backup", "temp"}
Dirs == {"buffers", "links"}

VARIABLES
  frags,            \* present fragment files: path -> text
  verbose,          \* options.verbose
  dirs,             \* the directories that exist, of "buffers" (the directory
                    \* of outputFile) and "links" (outputDir)
  outputFile,       \* the file of the tree that outputFile names, 0 when
                    \* outputFile names no file of the tree (merged.css)
  buf,              \* tempFile / backupFile on disk
  shadowLink,       \* "absent", a symlink to "backup" or "temp", a "dangling"
                    \* symlink to a missing foreign path, or a "regular" file
  mainStylesLink,   \* "absent", "shadow" (a symlink to shadowLink) or a
                    \* "dangling" symlink to a missing foreign path
  lastKnownFiles,
  lastKnownHash,
  tempFileHandle,
  backupFileHandle,
  pc,               \* position of the call in flight, "idle" between calls
  loc,              \* the locals of the call in flight
  hist,             \* history of the run (calls, edits, faults, snapshot)
  deduplicate,      \* options.deduplicate: "unset", "true" or "false"
  parked,           \* a second call of the instance, suspended at an await
  process           \* st: "running", "signalled" or "exited" (process.exit);
                    \* calls: the calls made when the signal arrived

vars == <<frags, dirs, verbose, outputFile, buf, shadowLink, mainStylesLink, lastKnownFiles,
          lastKnownHash, tempFileHandle, backupFileHandle, pc, loc, hist,
          deduplicate, parked, process>>

optVars == <<verbose, outputFile, deduplicate>>
schedVars == <<parked, process>>
fsVars == <<buf, shadowLink, mainStylesLink>>
instVars == <<lastKnownFiles, lastKnownHash, tempFileHandle, backupFileHandle>>

----------------------------------------------------------------------------
(* Pure functions *)

Min(S) == CHOOSE x \in S : \A y \in S : x <= y

RECURSIVE SortedSeq(_)
SortedSeq(S) == IF S = {} THEN <<>> ELSE <<Min(S)>> \o SortedSeq(S \ {Min(S)})

Range(s) == {s[i] : i \in 1..Len(s)}

IsPrefix(s, t) == Len(s) <= Len(t) /\ SubSeq(t, 1, Len(s)) = s

\* readdir(dir): the files of dir, then its subdirectories
filesOf(dir, tree) == SortedSeq({p \in DOMAIN tree : dirOf(p) = dir})

subDirsOf(dir, tree) ==
  LET below == {dirOf(p)[Len(dir) + 1] :
                  p \in {q \in DOMAIN tree :
                           IsPrefix(dir, dirOf(q)) /\ Len(dirOf(q)) > Len(dir)}}
  IN SelectSeq(DirNames, LAMBDA d : d \in below)

\* faulty variant of isIgnoredDir: no directory is skipped
isIgnoredDir_Never(name) == FALSE

\* line 31: entry.name === 'node_modules'
isIgnoredDir(name) == name = "node_modules"

\* lines 25 and 43: the file is no excluded path and its name matches
isListed(p, exclude) == p \notin exclude /\ Matches(p)

\* getAllFiles(dir, pattern, exclude): the entries of dir in readdir order,
\* the files of a subdirectory where the subdirectory stands.
RECURSIVE getAllFilesIn(_, _, _)
RECURSIVE scanDirs(_, _, _, _)
getAllFilesIn(dir, tree, exclude) ==
  SelectSeq(filesOf(dir, tree), LAMBDA p : isListed(p, exclude))
    \o scanDirs(dir, subDirsOf(dir, tree), tree, exclude)

scanDirs(dir, names, tree, exclude) ==
  IF names = <<>> THEN <<>>
  ELSE (IF isIgnoredDir(Head(names)) THEN <<>>
        ELSE getAllFilesIn(Append(dir, Head(names)), tree, exclude))
       \o scanDirs(dir, Tail(names), tree, exclude)

\* line 281: [absoluteOutputFile, tempFile, backupFile]; the two buffers are
\* no files of the tree
exclude == {outputFile}

\* getAllFiles(outputDir, /\.module\.css$/, exclude)
getAllFiles(tree) == getAllFilesIn(<<>>, tree, exclude)

\* calculateFileHash: SHA-256 of the file's bytes, taken as collision free.
calculateFileHash(text) == <<"sha256", text>>

\* calculateHash: SHA-256 over the per-file digests in list order.
calculateHash(files, tree) ==
  <<"sha256", [i \in 1..Len(files) |-> calculateFileHash(tree[files[i]])]>>

\* lastKnownHash = '' of a new instance
EmptyHash == <<>>

\* contents.join('\n')
RECURSIVE Join(_)
Join(texts) ==
  IF Len(texts) = 0 THEN <<>>
  ELSE IF Len(texts) = 1 THEN texts[1]
  ELSE texts[1] \o <<NL>> \o Join(Tail(texts))

\* the batch loop of onSuccess: combinedContent += contents.join('\n')
RECURSIVE CombineFrom(_, _, _)
CombineFrom(files, tree, i) ==
  IF i > Len(files) THEN <<>>
  ELSE LET last  == IF i + batchSize - 1 < Len(files)
                    THEN i + batchSize - 1 ELSE Len(files)
           batch == [k \in 1..(last - i + 1) |-> tree[files[i + k - 1]]]
       IN Join(batch) \o CombineFrom(files, tree, i + batchSize)

combinedContent(files, tree) == CombineFrom(files, tree, 1)

\* postcss([postcssDiscardDuplicates]): a rule equal to a later rule is
\* removed together with the whitespace in front of it.
KeepToken(text, i) ==
  LET laterRules == {j \in (i + 1)..Len(text) : text[j] # NL}
      ruleAt     == IF text[i] # NL THEN i
                    ELSE IF laterRules = {} THEN 0 ELSE Min(laterRules)
  IN ruleAt = 0 \/ ~\E j \in (ruleAt + 1)..Len(text) : text[j] = text[ruleAt]

RECURSIVE DedupeFrom(_, _)
DedupeFrom(text, i) ==
  IF i > Len(text) THEN <<>>
  ELSE (IF KeepToken(text, i) THEN <<text[i]>> ELSE <<>>) \o DedupeFrom(text, i + 1)

\* faulty variant of discardDuplicates: the transform removes nothing
discardDuplicates_Keeps(text) == text

discardDuplicates(text) == DedupeFrom(text, 1)

\* the merge of a fragment tree, as onSuccess computes it (lines 310-330)
MergeOf(tree) == discardDuplicates(combinedContent(getAllFiles(tree), tree))

\* !content.trim()
IsBlank(text) == \A i \in 1..Len(text) : text[i] = NL

----------------------------------------------------------------------------
(* The filesystem as the plugin and a reader see it *)

NoFile == [exists |-> FALSE, partial |-> FALSE, text |-> <<>>]

\* fs.existsSync(shadowLink): follows the link
ShadowResolves ==
  \/ shadowLink = "regular"
  \/ shadowLink \in Buffers /\ buf[shadowLink].exists

\* lines 180 and 217: symlink(shadowLink, mainStylesLink)
mainTarget == "shadow"

\* fs.existsSync(mainStylesLink)
MainResolves == mainStylesLink = "shadow" /\ ShadowResolves

\* what a reader gets that opens mainStylesLink and reads it to the end
ReadMain ==
  IF ~MainResolves THEN [st |-> "enoent", text |-> <<>>]
  ELSE IF shadowLink = "regular" THEN [st |-> "foreign", text |-> <<>>]
  ELSE IF buf[shadowLink].partial
       THEN [st |-> "partial", text |-> buf[shadowLink].text]
       ELSE [st |-> "ok", text |-> buf[shadowLink].text]

Complete(text) == [st |-> "ok", text |-> text]

\* writeFile opens with flag 'w' (create, truncate), then writes, then closes
Truncated == [exists |-> TRUE, partial |-> TRUE, text |-> <<>>]
Written(text) == [exists |-> TRUE, partial |-> FALSE, text |-> text]

\* the file f after a writeFile of text has written its data at offset 0 and
\* closed: data that another writer has put behind the end of text stays
WrittenOver(f, text) ==
  [exists |-> TRUE, partial |-> FALSE,
   text |-> text \o SubSeq(f.text, Len(text) + 1, Len(f.text))]

\* fs.promises.open(path, 'a+'): creates the file when it is missing
Opened(f) == IF f.exists THEN f ELSE [exists |-> TRUE, partial |-> FALSE, text |-> <<>>]

----------------------------------------------------------------------------
(* Locals of a call and the history of the run *)

Loc0 ==
  [op |-> "none", moduleFiles |-> <<>>, currentContent |-> <<>>,
   currentHash |-> EmptyHash, combined |-> <<>>, newContent |-> <<>>,
   forceUpdate |-> FALSE, currentTarget |-> "none", caller |-> "none",
   success |-> FALSE, after |-> "none"]

\* hist: the counters of the run; of the call in flight (or the last call)
\* its operation, how it ended, the labels whose call was made to fail, the
\* number of writeFile calls it started, the number of handles it closed and
\* the contents that it (and the calls that overlap it) handed to writeFile;
\* the kinds of fragment change
\* since that call started; prev, the same facts about the call before it;
\* pre, the state the call found when it started.
Pre0 ==
  [read |-> [st |-> "enoent", text |-> <<>>], files |-> {}, hash |-> EmptyHash,
   shadow |-> "absent", main |-> "absent"]

Prev0 == [op |-> "none", outcome |-> "none", clean |-> TRUE, change |-> {}]

Hist0 ==
  [calls |-> 0, edits |-> 0, faults |-> 0, kills |-> 0, op |-> "none",
   outcome |-> "none",
   callFaults |-> {}, writes |-> 0, change |-> {}, prev |-> Prev0, pre |-> Pre0,
   closes |-> 0, contents |-> {}]

\* the history at the start of a call
Started(op) ==
  [hist EXCEPT !.calls = @ + 1, !.op = op, !.outcome = "running",
               !.callFaults = {}, !.writes = 0, !.change = {}, !.closes = 0,
               !.contents = IF parked.pc = "idle" THEN {} ELSE @,
               !.prev = [op |-> hist.op, outcome |-> hist.outcome,
                         clean |-> hist.callFaults = {}, change |-> hist.change],
               !.pre = [read |-> ReadMain, files |-> lastKnownFiles,
                        hash |-> lastKnownHash, shadow |-> shadowLink,
                        main |-> mainStylesLink]]

----------------------------------------------------------------------------
(* Control: the try/catch structure of the code *)

\* the awaited calls: each of them can reject
FaultPoints ==
  {"L131", "L134", "L147", "L154", "L156", "L163", "L165", "L174", "L180",
   "L278", "L292", "L303", "L318", "L324", "L212", "L215", "L215w", "L216",
   "L217", "L226", "L226w", "L230", "L231", "L234", "L234w", "L240", "L241",
   "L257", "L261"}

\* faulty variants of CatchOf: a failed scan is swallowed and the refresh goes on
\* with no fragment; setupInitialFiles is called outside the try of onSuccess
CatchOf_ScanSwallowed(l) ==
  CASE l \in {"L131", "L134", "L147", "L174", "L180"} -> "L196"  \* catch of setupInitialFiles
    [] l \in {"L154", "L156"} -> "L163"          \* catch (e) at 158: ignored
    [] l \in {"L163", "L165"} -> "L172"          \* catch (e) at 167: ignored
    [] l = "L197" -> "L368"                      \* throw error, caught by onSuccess
    [] l = "L278" -> "L292"
    [] l \in {"L303", "L318", "L324"} -> "L368"
    [] l = "L292" -> "L301"                      \* catch at 294: currentContent stays ''
    [] l = "L212" -> "L215"                      \* catch at 213: initial setup case
    [] l \in {"L215", "L215w", "L216", "L217", "L226", "L226w"} -> "L248"
    [] l \in {"L230", "L231", "L234", "L234w"} -> "L240"   \* catch at 237: rollback
    [] l \in {"L240", "L241"} -> "L245"          \* catch at 242: logged
    [] l = "L245" -> "L248"                      \* throw error, caught at 247
    [] l \in {"L257", "L261"} -> "L267"          \* catch of cleanup: logged
    [] OTHER -> "escape"

CatchOf_SetupOutsideTry(l) ==
  CASE l \in {"L131", "L134", "L147", "L174", "L180"} -> "L196"  \* catch of setupInitialFiles
    [] l \in {"L154", "L156"} -> "L163"          \* catch (e) at 158: ignored
    [] l \in {"L163", "L165"} -> "L172"          \* catch (e) at 167: ignored
    [] l = "L197" -> "escape"
    [] l \in {"L278", "L303", "L318", "L324"} -> "L368"
    [] l = "L292" -> "L301"                      \* catch at 294: currentContent stays ''
    [] l = "L212" -> "L215"                      \* catch at 213: initial setup case
    [] l \in {"L215", "L215w", "L216", "L217", "L226", "L226w"} -> "L248"
    [] l \in {"L230", "L231", "L234", "L234w"} -> "L240"   \* catch at 237: rollback
    [] l \in {"L240", "L241"} -> "L245"          \* catch at 242: logged
    [] l = "L245" -> "L248"                      \* throw error, caught at 247
    [] l \in {"L257", "L261"} -> "L267"          \* catch of cleanup: logged
    [] OTHER -> "escape"

\* where control continues when the call at label l throws
\* faulty variant of CatchOf: cleanup has no try/catch, a rejected close escapes
CatchOf_CloseEscapes(l) ==
  CASE l \in {"L131", "L134", "L147", "L174", "L180"} -> "L196"  \* catch of setupInitialFiles
    [] l \in {"L154", "L156"} -> "L163"          \* catch (e) at 158: ignored
    [] l \in {"L163", "L165"} -> "L172"          \* catch (e) at 167: ignored
    [] l = "L197" -> "L368"                      \* throw error, caught by onSuccess
    [] l \in {"L278", "L303", "L318", "L324"} -> "L368"
    [] l = "L292" -> "L301"                      \* catch at 294: currentContent stays ''
    [] l = "L212" -> "L215"                      \* catch at 213: initial setup case
    [] l \in {"L215", "L215w", "L216", "L217", "L226", "L226w"} -> "L248"
    [] l \in {"L230", "L231", "L234", "L234w"} -> "L240"   \* catch at 237: rollback
    [] l \in {"L240", "L241"} -> "L245"          \* catch at 242: logged
    [] l = "L245" -> "L248"                      \* throw error, caught at 247
    [] OTHER -> "escape"

CatchOf(l) ==
  CASE l \in {"L131", "L134", "L147", "L174", "L180"} -> "L196"  \* catch of setupInitialFiles
    [] l \in {"L154", "L156"} -> "L163"          \* catch (e) at 158: ignored
    [] l \in {"L163", "L165"} -> "L172"          \* catch (e) at 167: ignored
    [] l = "L197" -> "L368"                      \* throw error, caught by onSuccess
    [] l \in {"L278", "L303", "L318", "L324"} -> "L368"
    [] l = "L292" -> "L301"                      \* catch at 294: currentContent stays ''
    [] l = "L212" -> "L215"                      \* catch at 213: initial setup case
    [] l \in {"L215", "L215w", "L216", "L217", "L226", "L226w"} -> "L248"
    [] l \in {"L230", "L231", "L234", "L234w"} -> "L240"   \* catch at 237: rollback
    [] l \in {"L240", "L241"} -> "L245"          \* catch at 242: logged
    [] l = "L245" -> "L248"                      \* throw error, caught at 247
    [] l \in {"L257", "L261"} -> "L267"          \* catch of cleanup: logged
    [] OTHER -> "escape"

\* continue at target; "exit" is a normal return of the public operation,
\* "escape" an exception that leaves it
Go(target, l, h) ==
  LET over == target \in {"exit", "escape"} IN
  /\ pc' = IF over THEN "idle" ELSE target
  /\ loc' = IF over THEN Loc0 ELSE l
  /\ hist' = IF over
             THEN [h EXCEPT !.outcome = IF target = "exit" THEN "returned" ELSE "threw"]
             ELSE h

Throw(l) == Go(CatchOf(l), loc, hist)

----------------------------------------------------------------------------
(* Initial state: a new plugin instance over an output directory that      *)
(* holds fragments and no buffer; the shadow link path is free, or it is   *)
(* occupied by a regular file or by a stale symlink.                       *)

Trees == UNION {[S -> FragTexts] : S \in SUBSET Paths}

\* no call of the instance is suspended
Parked0 == [pc |-> "idle", loc |-> Loc0]

\* a new instance in a running process, over an output directory without
\* buffers and without mainStylesLink
\* lines 121-126: what a new instance holds
NewPlugin ==
  /\ lastKnownFiles = {}
  /\ lastKnownHash = EmptyHash
  /\ tempFileHandle = "null"
  /\ backupFileHandle = "null"
  /\ pc = "idle"
  /\ loc = Loc0
  /\ hist = Hist0
  /\ parked = Parked0
  /\ process = [st |-> "running", calls |-> 0]

NewInstance ==
  /\ buf = [b \in Buffers |-> NoFile]
  /\ mainStylesLink = "absent"
  /\ NewPlugin

Init ==
  /\ NewInstance
  /\ frags \in Trees
  /\ verbose \in BOOLEAN
  /\ deduplicate = "unset"
  /\ outputFile = 0
  /\ dirs = Dirs
  /\ shadowLink \in {"absent", "regular", "dangling"}

----------------------------------------------------------------------------
(* The build system: fragments change between calls (the tree the first   *)
(* call finds is any tree, so changes before it add nothing)               *)

Edited(kind) == [hist EXCEPT !.edits = @ + 1, !.change = @ \cup {kind}]

WriteFragment ==
  /\ pc = "idle" /\ hist.calls > 0 /\ hist.edits < MaxEdits
  /\ \E p \in Paths, t \in FragTexts :
       /\ p \in DOMAIN frags => frags[p] # t
       /\ frags' = [q \in DOMAIN frags \cup {p} |-> IF q = p THEN t ELSE frags[q]]
       /\ hist' = Edited(IF p \in DOMAIN frags THEN "modify" ELSE "add")
  /\ UNCHANGED <<dirs, optVars, schedVars, fsVars, instVars, pc, loc>>

RemoveFragment ==
  /\ pc = "idle" /\ hist.calls > 0 /\ hist.edits < MaxEdits
  /\ \E p \in DOMAIN frags : frags' = [q \in DOMAIN frags \ {p} |-> frags[q]]
  /\ hist' = Edited("remove")
  /\ UNCHANGED <<dirs, optVars, schedVars, fsVars, instVars, pc, loc>>

RemoveNestedDir ==
  /\ pc = "idle" /\ hist.calls > 0 /\ hist.edits < MaxEdits
  /\ DOMAIN frags \cap NestedPaths # {}
  /\ frags' = [q \in DOMAIN frags \ NestedPaths |-> frags[q]]
  /\ hist' = Edited("remove")
  /\ UNCHANGED <<dirs, optVars, schedVars, fsVars, instVars, pc, loc>>

----------------------------------------------------------------------------
(* setupInitialFiles (lines 128-199) *)

OnSuccess ==
  /\ pc = "idle" /\ hist.calls < MaxCalls
  /\ parked.pc = "idle" \/ hist.calls < MaxOverlapCalls
  /\ Go("L130", [Loc0 EXCEPT !.op = "onSuccess"], Started("onSuccess"))
  /\ UNCHANGED <<frags, dirs, optVars, schedVars, fsVars, instVars>>

\* line 130: if (!tempFileHandle)
SetupCheckTemp ==
  /\ pc = "L130"
  /\ IF tempFileHandle = "null" THEN Go("L131", loc, hist) ELSE Go("L133", loc, hist)
  /\ UNCHANGED <<frags, dirs, optVars, schedVars, fsVars, instVars>>

OpenTemp ==
  /\ pc = "L131"
  /\ IF "buffers" \in dirs
     THEN /\ tempFileHandle' = "open"
          /\ buf' = [buf EXCEPT !["temp"] = Opened(@)]
          /\ Go("L133", loc, hist)
     ELSE Throw("L131") /\ UNCHANGED <<tempFileHandle, buf>>   \* ENOENT
  /\ UNCHANGED <<frags, dirs, optVars, schedVars, shadowLink, mainStylesLink, lastKnownFiles,
                 lastKnownHash, backupFileHandle>>

\* line 133: if (!backupFileHandle)
SetupCheckBackup ==
  /\ pc = "L133"
  /\ IF backupFileHandle = "null" THEN Go("L134", loc, hist) ELSE Go("L147", loc, hist)
  /\ UNCHANGED <<frags, dirs, optVars, schedVars, fsVars, instVars>>

OpenBackup ==
  /\ pc = "L134"
  /\ IF "buffers" \in dirs
     THEN /\ backupFileHandle' = "open"
          /\ buf' = [buf EXCEPT !["backup"] = Opened(@)]
          /\ Go("L147", loc, hist)
     ELSE Throw("L134") /\ UNCHANGED <<backupFileHandle, buf>> \* ENOENT
  /\ UNCHANGED <<frags, dirs, optVars, schedVars, shadowLink, mainStylesLink, lastKnownFiles,
                 lastKnownHash, tempFileHandle>>

\* lines 147-150: mkdir(path.dirname(mainStylesLink)) and
\* mkdir(path.dirname(shadowLink)), recursive; both name outputDir
Mkdir ==
  /\ pc = "L147"
  /\ dirs' = dirs \cup {"links"}
  /\ Go("L154", loc, hist)
  /\ UNCHANGED <<frags, optVars, schedVars, fsVars, instVars>>

SetupReadlinkShadow ==
  /\ pc = "L154"
  /\ IF shadowLink \in {"backup", "temp", "dangling"}
     THEN IF ShadowResolves THEN Go("L163", loc, hist) ELSE Go("L156", loc, hist)
     ELSE Throw("L154")
  /\ UNCHANGED <<frags, dirs, optVars, schedVars, fsVars, instVars>>

SetupUnlinkShadow ==
  /\ pc = "L156"
  /\ shadowLink' = "absent"
  /\ Go("L163", loc, hist)
  /\ UNCHANGED <<frags, dirs, optVars, schedVars, buf, mainStylesLink, instVars>>

SetupReadlinkMain ==
  /\ pc = "L163"
  /\ IF mainStylesLink \in {"shadow", "dangling"}
     THEN IF MainResolves THEN Go("L172", loc, hist) ELSE Go("L165", loc, hist)
     ELSE Throw("L163")
  /\ UNCHANGED <<frags, dirs, optVars, schedVars, fsVars, instVars>>

SetupUnlinkMain ==
  /\ pc = "L165"
  /\ mainStylesLink' = "absent"
  /\ Go("L172", loc, hist)
  /\ UNCHANGED <<frags, dirs, optVars, schedVars, buf, shadowLink, instVars>>

\* line 172: if (!fs.existsSync(shadowLink))
SetupCheckShadow ==
  /\ pc = "L172"
  /\ IF ShadowResolves THEN Go("L178", loc, hist) ELSE Go("L174", loc, hist)
  /\ UNCHANGED <<frags, dirs, optVars, schedVars, fsVars, instVars>>

SetupSymlinkShadow ==
  /\ pc = "L174"
  /\ IF shadowLink = "absent"
     THEN shadowLink' = "backup" /\ Go("L178", loc, hist)
     ELSE Throw("L174") /\ UNCHANGED shadowLink            \* EEXIST
  /\ UNCHANGED <<frags, dirs, optVars, schedVars, buf, mainStylesLink, instVars>>

\* faulty variant of SetupCheckMain: mainStylesLink is never created
SetupCheckMain_Skips ==
  /\ pc = "L178"
  /\ Go("L278", loc, hist)
  /\ UNCHANGED <<frags, dirs, optVars, schedVars, fsVars, instVars>>

\* line 178: if (!fs.existsSync(mainStylesLink))
SetupCheckMain ==
  /\ pc = "L178"
  /\ IF MainResolves THEN Go("L278", loc, hist) ELSE Go("L180", loc, hist)
  /\ UNCHANGED <<frags, dirs, optVars, schedVars, fsVars, instVars>>

SetupSymlinkMain ==
  /\ pc = "L180"
  /\ IF mainStylesLink = "absent"
     THEN mainStylesLink' = mainTarget /\ Go("L278", loc, hist)
     ELSE Throw("L180") /\ UNCHANGED mainStylesLink        \* EEXIST
  /\ UNCHANGED <<frags, dirs, optVars, schedVars, buf, shadowLink, instVars>>

\* faulty variant of SetupCatch: the error is thrown on without cleanup
SetupCatch_NoCleanup ==
  /\ pc = "L196"
  /\ Go("L197", loc, hist)
  /\ UNCHANGED <<frags, dirs, optVars, schedVars, fsVars, instVars>>

SetupCatch ==
  /\ pc = "L196"
  /\ Go("L256", [loc EXCEPT !.after = "L197"], hist)
  /\ UNCHANGED <<frags, dirs, optVars, schedVars, fsVars, instVars>>

SetupRethrow ==
  /\ pc = "L197"
  /\ Throw("L197")
  /\ UNCHANGED <<frags, dirs, optVars, schedVars, fsVars, instVars>>

----------------------------------------------------------------------------
(* cleanup (lines 254-267) and dispose *)

Dispose ==
  /\ pc = "idle" /\ hist.calls < MaxCalls
  /\ Go("L256", [Loc0 EXCEPT !.op = "dispose", !.after = "exit"], Started("dispose"))
  /\ UNCHANGED <<frags, dirs, optVars, schedVars, fsVars, instVars>>

\* line 256: if (tempFileHandle)
CleanupCheckTemp ==
  /\ pc = "L256"
  /\ IF tempFileHandle # "null"
     THEN Go("L257", loc, [hist EXCEPT !.closes = @ + 1])
     ELSE Go("L260", loc, hist)
  /\ UNCHANGED <<frags, dirs, optVars, schedVars, fsVars, instVars>>

CloseTemp ==
  /\ pc = "L257"
  /\ tempFileHandle' = "null"
  /\ Go("L260", loc, hist)
  /\ UNCHANGED <<frags, dirs, optVars, schedVars, fsVars, lastKnownFiles, lastKnownHash,
                 backupFileHandle>>

\* a faulty variant of CleanupCheckBackup: the second handle is forgotten
CleanupCheckBackup_Skips ==
  /\ pc = "L260"
  /\ Go("L267", loc, hist)
  /\ UNCHANGED <<frags, dirs, optVars, schedVars, fsVars, instVars>>

\* line 260: if (backupFileHandle)
CleanupCheckBackup ==
  /\ pc = "L260"
  /\ IF backupFileHandle # "null"
     THEN Go("L261", loc, [hist EXCEPT !.closes = @ + 1])
     ELSE Go("L267", loc, hist)
  /\ UNCHANGED <<frags, dirs, optVars, schedVars, fsVars, instVars>>

CloseBackup ==
  /\ pc = "L261"
  /\ backupFileHandle' = "null"
  /\ Go("L267", loc, hist)
  /\ UNCHANGED <<frags, dirs, optVars, schedVars, fsVars, lastKnownFiles, lastKnownHash,
                 tempFileHandle>>

CleanupReturn ==
  /\ pc = "L267"
  /\ Go(loc.after, loc, hist)
  /\ UNCHANGED <<frags, dirs, optVars, schedVars, fsVars, instVars>>

----------------------------------------------------------------------------
(* onSuccess after the setup (lines 278-371) *)

Scan ==
  /\ pc = "L278"
  /\ Go("L292", [loc EXCEPT !.moduleFiles = getAllFiles(frags)], hist)
  /\ UNCHANGED <<frags, dirs, optVars, schedVars, fsVars, instVars>>

\* readlink(shadowLink) and readFile of its target; an error leaves ''
ReadCurrent ==
  /\ pc = "L292"
  /\ IF shadowLink \in Buffers /\ buf[shadowLink].exists
     THEN Go("L301", [loc EXCEPT !.currentContent = buf[shadowLink].text], hist)
     ELSE Throw("L292")
  /\ UNCHANGED <<frags, dirs, optVars, schedVars, fsVars, instVars>>

\* faulty variants of hasChanged: without the fingerprint comparison; with the path
\* membership test alone
hasChanged_HashOnly(files, hash, lastFiles, lastHash) == hash # lastHash

hasChanged_NoHash(files, hash, lastFiles, lastHash) ==
  \/ Len(files) # Cardinality(lastFiles)
  \/ ~\A i \in 1..Len(files) : files[i] \in lastFiles

hasChanged_PathsOnly(files, hash, lastFiles, lastHash) ==
  ~\A i \in 1..Len(files) : files[i] \in lastFiles

\* lines 305-308
hasChanged(files, hash, lastFiles, lastHash) ==
  \/ hash # lastHash
  \/ Len(files) # Cardinality(lastFiles)
  \/ ~\A i \in 1..Len(files) : files[i] \in lastFiles

\* line 341: else if (verbose), the branch that republishes the current content
preserveWhenUnchanged(v) == v

\* a faulty variant of emptyScanUpdate: an empty scan clears the artifact
emptyScanUpdate_Clears(current) == [content |-> <<>>, force |-> TRUE]

\* lines 353-365: the update made when no fragment was found
emptyScanUpdate(current) ==
  [content |-> IF ~IsBlank(current) THEN current ELSE <<>>, force |-> FALSE]

BranchOnFiles ==
  /\ pc = "L301"
  /\ IF Len(loc.moduleFiles) > 0
     THEN Go("L303", loc, hist)
     ELSE Go("L204", [loc EXCEPT !.caller = "empty",
                                 !.forceUpdate = emptyScanUpdate(loc.currentContent).force,
                                 !.newContent = emptyScanUpdate(loc.currentContent).content],
             hist)
  /\ UNCHANGED <<frags, dirs, optVars, schedVars, fsVars, instVars>>

\* lines 305-349: where onSuccess goes on after calculateHash
branchAfterHash(v, changed, currentContent) ==
  IF changed THEN "L318"
  ELSE IF preserveWhenUnchanged(v) /\ ~IsBlank(currentContent) THEN "L204"
  ELSE "exit"

Hash ==
  /\ pc = "L303"
  /\ LET h == calculateHash(loc.moduleFiles, frags)
         l == [loc EXCEPT !.currentHash = h]
         changed == hasChanged(loc.moduleFiles, h, lastKnownFiles, lastKnownHash)
         branch == branchAfterHash(verbose, changed, loc.currentContent)
     IN IF branch = "L204"
        THEN Go("L204", [l EXCEPT !.caller = "preserve", !.forceUpdate = FALSE,
                                  !.newContent = loc.currentContent], hist)
        ELSE Go(branch, l, hist)
  /\ UNCHANGED <<frags, dirs, optVars, schedVars, fsVars, instVars>>

ReadFragments ==
  /\ pc = "L318"
  /\ Go("L324", [loc EXCEPT !.combined = combinedContent(loc.moduleFiles, frags)], hist)
  /\ UNCHANGED <<frags, dirs, optVars, schedVars, fsVars, instVars>>

Transform ==
  /\ pc = "L324"
  /\ Go("L204", [loc EXCEPT !.caller = "changed", !.forceUpdate = FALSE,
                            !.newContent = discardDuplicates(loc.combined)], hist)
  /\ UNCHANGED <<frags, dirs, optVars, schedVars, fsVars, instVars>>

\* lines 336-340 and the return of onSuccess / onClear
\* faulty variant of AfterPublish: the fingerprint is remembered whether or
\* not the publish succeeded
AfterPublish_Always ==
  /\ pc = "L336"
  /\ IF loc.caller = "changed"
     THEN /\ lastKnownFiles' = Range(loc.moduleFiles)
          /\ lastKnownHash' = loc.currentHash
     ELSE UNCHANGED <<lastKnownFiles, lastKnownHash>>
  /\ Go("exit", loc, hist)
  /\ UNCHANGED <<frags, dirs, optVars, schedVars, fsVars, tempFileHandle, backupFileHandle>>

AfterPublish ==
  /\ pc = "L336"
  /\ IF loc.caller = "changed" /\ loc.success
     THEN /\ lastKnownFiles' = Range(loc.moduleFiles)
          /\ lastKnownHash' = loc.currentHash
     ELSE UNCHANGED <<lastKnownFiles, lastKnownHash>>
  /\ Go("exit", loc, hist)
  /\ UNCHANGED <<frags, dirs, optVars, schedVars, fsVars, tempFileHandle, backupFileHandle>>

OnSuccessCatch ==
  /\ pc = "L368"
  /\ Go("exit", loc, hist)
  /\ UNCHANGED <<frags, dirs, optVars, schedVars, fsVars, instVars>>

OnClear ==
  /\ pc = "idle" /\ hist.calls < MaxCalls
  /\ parked.pc = "idle" \/ hist.calls < MaxOverlapCalls
  /\ Go("L204", [Loc0 EXCEPT !.op = "onClear", !.caller = "clear",
                             !.forceUpdate = TRUE, !.newContent = <<>>],
        Started("onClear"))
  /\ UNCHANGED <<frags, dirs, optVars, schedVars, fsVars, instVars>>

----------------------------------------------------------------------------
(* atomicStyleUpdate (lines 201-251) *)

\* lines 221-223
\* faulty variant of activeFile: the new content always goes to backupFile
activeFile_Backup(currentTarget) == "backup"

activeFile(currentTarget) == IF currentTarget = "backup" THEN "temp" ELSE "backup"
inactiveFile(currentTarget) == IF currentTarget = "backup" THEN "backup" ELSE "temp"

WriteStarted ==
  [hist EXCEPT !.writes = @ + 1, !.contents = @ \cup {loc.newContent}]

\* faulty variants of skipUpdate: forceUpdate is ignored; the emptiness test is lost
skipUpdate_IgnoresForce(newContent, forceUpdate) == IsBlank(newContent)

skipUpdate_Unforced(newContent, forceUpdate) == ~forceUpdate

\* line 204: early return for empty content
skipUpdate(newContent, forceUpdate) == IsBlank(newContent) /\ ~forceUpdate

CheckEmpty ==
  /\ pc = "L204"
  /\ IF skipUpdate(loc.newContent, loc.forceUpdate)
     THEN Go("L336", [loc EXCEPT !.success = FALSE], hist)
     ELSE Go("L212", loc, hist)
  /\ UNCHANGED <<frags, dirs, optVars, schedVars, fsVars, instVars>>

PublishReadlink ==
  /\ pc = "L212"
  /\ IF shadowLink \in {"backup", "temp", "dangling"}
     THEN Go("L226", [loc EXCEPT !.currentTarget = shadowLink], hist)
     ELSE Throw("L212")
  /\ UNCHANGED <<frags, dirs, optVars, schedVars, fsVars, instVars>>

FirstWriteBegin ==
  /\ pc = "L215"
  /\ IF "buffers" \in dirs
     THEN /\ buf' = [buf EXCEPT !["backup"] = Truncated]
          /\ Go("L215w", loc, WriteStarted)
     ELSE Throw("L215") /\ UNCHANGED buf                    \* ENOENT
  /\ UNCHANGED <<frags, dirs, optVars, schedVars, shadowLink, mainStylesLink, instVars>>

FirstWriteEnd ==
  /\ pc = "L215w"
  /\ buf' = [buf EXCEPT !["backup"] = WrittenOver(@, loc.newContent)]
  /\ Go("L216", loc, hist)
  /\ UNCHANGED <<frags, dirs, optVars, schedVars, shadowLink, mainStylesLink, instVars>>

FirstSymlinkShadow ==
  /\ pc = "L216"
  /\ IF shadowLink = "absent" /\ "links" \in dirs
     THEN shadowLink' = "backup" /\ Go("L217", loc, hist)
     ELSE Throw("L216") /\ UNCHANGED shadowLink           \* EEXIST, ENOENT
  /\ UNCHANGED <<frags, dirs, optVars, schedVars, buf, mainStylesLink, instVars>>

FirstSymlinkMain ==
  /\ pc = "L217"
  /\ IF mainStylesLink = "absent"
     THEN mainStylesLink' = mainTarget /\ Go("L336", [loc EXCEPT !.success = TRUE], hist)
     ELSE Throw("L217") /\ UNCHANGED mainStylesLink       \* EEXIST
  /\ UNCHANGED <<frags, dirs, optVars, schedVars, buf, shadowLink, instVars>>

WriteActiveBegin ==
  /\ pc = "L226"
  /\ IF "buffers" \in dirs
     THEN /\ buf' = [buf EXCEPT ![activeFile(loc.currentTarget)] = Truncated]
          /\ Go("L226w", loc, WriteStarted)
     ELSE Throw("L226") /\ UNCHANGED buf                    \* ENOENT
  /\ UNCHANGED <<frags, dirs, optVars, schedVars, shadowLink, mainStylesLink, instVars>>

WriteActiveEnd ==
  /\ pc = "L226w"
  /\ buf' = [buf EXCEPT ![activeFile(loc.currentTarget)] = WrittenOver(@, loc.newContent)]
  /\ Go("L230", loc, hist)
  /\ UNCHANGED <<frags, dirs, optVars, schedVars, shadowLink, mainStylesLink, instVars>>

SwitchUnlink ==
  /\ pc = "L230"
  /\ IF shadowLink # "absent"
     THEN shadowLink' = "absent" /\ Go("L231", loc, hist)
     ELSE Throw("L230") /\ UNCHANGED shadowLink           \* ENOENT
  /\ UNCHANGED <<frags, dirs, optVars, schedVars, buf, mainStylesLink, instVars>>

\* faulty variant of SwitchSymlink: the switch points mainStylesLink at the
\* new buffer as well
SwitchSymlink_RepointsMain ==
  /\ pc = "L231"
  /\ IF shadowLink = "absent"
     THEN /\ shadowLink' = activeFile(loc.currentTarget)
          /\ mainStylesLink' = activeFile(loc.currentTarget)
          /\ Go("L234", loc, hist)
     ELSE Throw("L231") /\ UNCHANGED <<shadowLink, mainStylesLink>>
  /\ UNCHANGED <<frags, dirs, optVars, schedVars, buf, instVars>>

SwitchSymlink ==
  /\ pc = "L231"
  /\ IF shadowLink = "absent"
     THEN shadowLink' = activeFile(loc.currentTarget) /\ Go("L234", loc, hist)
     ELSE Throw("L231") /\ UNCHANGED shadowLink           \* EEXIST
  /\ UNCHANGED <<frags, dirs, optVars, schedVars, buf, mainStylesLink, instVars>>

WriteInactiveBegin ==
  /\ pc = "L234"
  /\ IF "buffers" \in dirs
     THEN /\ buf' = [buf EXCEPT ![inactiveFile(loc.currentTarget)] = Truncated]
          /\ Go("L234w", loc, WriteStarted)
     ELSE Throw("L234") /\ UNCHANGED buf                    \* ENOENT
  /\ UNCHANGED <<frags, dirs, optVars, schedVars, shadowLink, mainStylesLink, instVars>>

WriteInactiveEnd ==
  /\ pc = "L234w"
  /\ buf' = [buf EXCEPT ![inactiveFile(loc.currentTarget)] = WrittenOver(@, loc.newContent)]
  /\ Go("L336", [loc EXCEPT !.success = TRUE], hist)
  /\ UNCHANGED <<frags, dirs, optVars, schedVars, shadowLink, mainStylesLink, instVars>>

RollbackUnlink ==
  /\ pc = "L240"
  /\ IF shadowLink # "absent"
     THEN shadowLink' = "absent" /\ Go("L241", loc, hist)
     ELSE Throw("L240") /\ UNCHANGED shadowLink           \* ENOENT
  /\ UNCHANGED <<frags, dirs, optVars, schedVars, buf, mainStylesLink, instVars>>

RollbackSymlink ==
  /\ pc = "L241"
  /\ IF shadowLink = "absent"
     THEN shadowLink' = loc.currentTarget /\ Go("L245", loc, hist)
     ELSE Throw("L241") /\ UNCHANGED shadowLink           \* EEXIST
  /\ UNCHANGED <<frags, dirs, optVars, schedVars, buf, mainStylesLink, instVars>>

RollbackRethrow ==
  /\ pc = "L245"
  /\ Throw("L245")
  /\ UNCHANGED <<frags, dirs, optVars, schedVars, fsVars, instVars>>

PublishCatch ==
  /\ pc = "L248"
  /\ Go("L336", [loc EXCEPT !.success = FALSE], hist)
  /\ UNCHANGED <<frags, dirs, optVars, schedVars, fsVars, instVars>>

----------------------------------------------------------------------------
(* Faults of the environment *)

\* the awaited call at pc rejects (EIO, EACCES, ENOSPC, a syntax error of
\* the transform): control continues in the enclosing catch
InjectFault ==
  /\ pc \in FaultPoints
  /\ hist.faults < MaxFaults
  /\ Go(CatchOf(pc), loc,
        [hist EXCEPT !.faults = @ + 1, !.callFaults = @ \cup {pc}])
  /\ UNCHANGED <<frags, dirs, optVars, schedVars, fsVars, instVars>>

PublishLabels ==
  {"L204", "L212", "L215", "L215w", "L216", "L217", "L226", "L226w", "L230",
   "L231", "L234", "L234w", "L240", "L241", "L245", "L248"}

\* the process is killed between two steps of a publish; the next call is
\* made by a new plugin instance on the same paths (a kill counts as a fault)
Crash ==
  /\ pc \in PublishLabels
  /\ hist.faults < MaxFaults
  /\ pc' = "idle"
  /\ loc' = Loc0
  /\ lastKnownFiles' = {}
  /\ lastKnownHash' = EmptyHash
  /\ tempFileHandle' = "null"
  /\ backupFileHandle' = "null"
  /\ hist' = [hist EXCEPT !.faults = @ + 1, !.kills = @ + 1, !.outcome = "killed"]
  /\ UNCHANGED <<frags, dirs, optVars, schedVars, fsVars>>

----------------------------------------------------------------------------

Next ==
  \/ WriteFragment \/ RemoveFragment \/ RemoveNestedDir
  \/ OnSuccess \/ OnClear \/ Dispose
  \/ SetupCheckTemp \/ OpenTemp \/ SetupCheckBackup \/ OpenBackup \/ Mkdir
  \/ SetupReadlinkShadow \/ SetupUnlinkShadow
  \/ SetupReadlinkMain \/ SetupUnlinkMain
  \/ SetupCheckShadow \/ SetupSymlinkShadow \/ SetupCheckMain \/ SetupSymlinkMain
  \/ SetupCatch \/ SetupRethrow
  \/ CleanupCheckTemp \/ CloseTemp \/ CleanupCheckBackup \/ CloseBackup \/ CleanupReturn
  \/ Scan \/ ReadCurrent \/ BranchOnFiles \/ Hash \/ ReadFragments \/ Transform
  \/ AfterPublish \/ OnSuccessCatch
  \/ CheckEmpty \/ PublishReadlink
  \/ FirstWriteBegin \/ FirstWriteEnd \/ FirstSymlinkShadow \/ FirstSymlinkMain
  \/ WriteActiveBegin \/ WriteActiveEnd \/ SwitchUnlink \/ SwitchSymlink
  \/ WriteInactiveBegin \/ WriteInactiveEnd
  \/ RollbackUnlink \/ RollbackSymlink \/ RollbackRethrow \/ PublishCatch
  \/ InjectFault \/ Crash

Spec == Init /\ [][Next]_vars

----------------------------------------------------------------------------
(* Overlapping calls on one instance.  A call is suspended at each of its   *)
(* awaits (the labels of FaultPoints); while it is suspended the build      *)
(* system can start another call and the event loop completes the awaited  *)
(* operations of either call in any order.  pc and loc belong to the call  *)
(* whose step is taken next, parked holds the other call.  The code between *)
(* two awaits of a call runs without interruption.                          *)

\* the call in flight stays suspended at its await: the build system can
\* start another call
Suspend ==
  /\ process.st = "running"
  /\ pc \in FaultPoints /\ parked.pc = "idle"
  /\ hist.calls < MaxOverlapCalls
  /\ pc' = "idle"
  /\ loc' = Loc0
  /\ parked' = [pc |-> pc, loc |-> loc]
  /\ UNCHANGED <<frags, dirs, optVars, fsVars, instVars, hist, process>>

\* the event loop turns to the other call
Yield ==
  /\ process.st # "exited"
  /\ pc \in FaultPoints \cup {"idle"}
  /\ parked.pc # "idle"
  /\ pc' = parked.pc
  /\ loc' = parked.loc
  /\ parked' = [pc |-> pc, loc |-> loc]
  /\ UNCHANGED <<frags, dirs, optVars, fsVars, instVars, hist, process>>

InitOverlap ==
  /\ NewInstance
  /\ frags \in [Paths -> FragTexts \ {<<>>}]
  /\ verbose \in BOOLEAN
  /\ deduplicate = "unset"
  /\ outputFile = 0
  /\ dirs = Dirs
  /\ shadowLink = "absent"

NextOverlap ==
  \/ WriteFragment
  \/ OnSuccess \/ OnClear \/ Suspend \/ Yield
  \/ SetupCheckTemp \/ OpenTemp \/ SetupCheckBackup \/ OpenBackup \/ Mkdir
  \/ SetupReadlinkShadow
  \/ SetupReadlinkMain \/ SetupUnlinkMain
  \/ SetupCheckShadow \/ SetupSymlinkShadow \/ SetupCheckMain \/ SetupSymlinkMain
  \/ SetupCatch \/ SetupRethrow
  \/ CleanupCheckTemp \/ CloseTemp \/ CleanupCheckBackup \/ CloseBackup \/ CleanupReturn
  \/ Scan \/ ReadCurrent \/ BranchOnFiles \/ Hash \/ ReadFragments \/ Transform
  \/ AfterPublish \/ OnSuccessCatch
  \/ CheckEmpty \/ PublishReadlink
  \/ FirstWriteBegin \/ FirstWriteEnd \/ FirstSymlinkShadow \/ FirstSymlinkMain
  \/ WriteActiveBegin \/ WriteActiveEnd \/ SwitchUnlink \/ SwitchSymlink
  \/ WriteInactiveBegin \/ WriteInactiveEnd
  \/ RollbackUnlink \/ RollbackSymlink \/ RollbackRethrow \/ PublishCatch

SpecOverlap == InitOverlap /\ [][NextOverlap]_vars

----------------------------------------------------------------------------
(* The first refresh of a new instance over wider trees: fragments at the   *)
(* root, in "nested" and below it, files in node_modules directories, a     *)
(* file whose name does not match, and a file at the place that the         *)
(* outputFile option names; the deduplicate option takes every value.       *)

MergeTexts == {<<11>>, <<12>>, <<11, NL, 21>>}

MergeTrees ==
  {[p \in S |-> IF p \in Paths THEN a[p]
                ELSE IF p = 103 THEN d
                ELSE CHOOSE t \in OtherTexts[p] : TRUE] :
     S \in SUBSET (Paths \cup OtherPaths), a \in [Paths -> MergeTexts],
     d \in OtherTexts[103]}

InitMerge ==
  /\ NewInstance
  /\ frags \in MergeTrees
  /\ verbose = TRUE
  /\ deduplicate \in {"unset", "true", "false"}
  /\ outputFile \in {0, 107}
  /\ dirs = Dirs
  /\ shadowLink = "absent"

FirstRefresh == hist.calls = 0 /\ OnSuccess

NextMerge ==
  \/ FirstRefresh
  \/ SetupCheckTemp \/ OpenTemp \/ SetupCheckBackup \/ OpenBackup \/ Mkdir
  \/ SetupReadlinkShadow \/ SetupReadlinkMain
  \/ SetupCheckShadow \/ SetupSymlinkShadow \/ SetupCheckMain \/ SetupSymlinkMain
  \/ Scan \/ ReadCurrent \/ BranchOnFiles \/ Hash \/ ReadFragments \/ Transform
  \/ AfterPublish
  \/ CheckEmpty \/ PublishReadlink
  \/ WriteActiveBegin \/ WriteActiveEnd \/ SwitchUnlink \/ SwitchSymlink
  \/ WriteInactiveBegin \/ WriteInactiveEnd

SpecMerge == InitMerge /\ [][NextMerge]_vars

----------------------------------------------------------------------------
(* Setup over what an earlier run or another program has left: buffers     *)
(* that exist or not, each link absent, dangling or as the plugin creates  *)
(* it, directories that do not exist yet.  A file lies in a directory that *)
(* exists.                                                                 *)

SetupLabels ==
  {"L131", "L134", "L147", "L154", "L156", "L163", "L165", "L174", "L180"}

\* an awaited call of setupInitialFiles rejects
SetupFault == pc \in SetupLabels /\ InjectFault

InitSetup ==
  /\ NewPlugin
  /\ dirs \in SUBSET Dirs
  /\ buf \in [Buffers -> {NoFile, Written(<<1>>)}]
  /\ shadowLink \in {"absent", "dangling", "backup", "temp"}
  /\ mainStylesLink \in {"absent", "dangling", "shadow"}
  /\ frags \in Trees
  /\ "buffers" \notin dirs => \A b \in Buffers : ~buf[b].exists
  /\ "links" \notin dirs =>
       shadowLink = "absent" /\ mainStylesLink = "absent" /\ DOMAIN frags = {}
  /\ verbose \in BOOLEAN
  /\ deduplicate = "unset"
  /\ outputFile = 0

NextSetup ==
  \/ OnSuccess \/ SetupFault
  \/ SetupCheckTemp \/ OpenTemp \/ SetupCheckBackup \/ OpenBackup \/ Mkdir
  \/ SetupReadlinkShadow \/ SetupUnlinkShadow
  \/ SetupReadlinkMain \/ SetupUnlinkMain
  \/ SetupCheckShadow \/ SetupSymlinkShadow \/ SetupCheckMain \/ SetupSymlinkMain
  \/ SetupCatch \/ SetupRethrow
  \/ CleanupCheckTemp \/ CloseTemp \/ CleanupCheckBackup \/ CloseBackup \/ CleanupReturn
  \/ Scan \/ ReadCurrent \/ BranchOnFiles \/ Hash \/ ReadFragments \/ Transform
  \/ AfterPublish \/ OnSuccessCatch
  \/ CheckEmpty \/ PublishReadlink
  \/ WriteActiveBegin \/ WriteActiveEnd \/ SwitchUnlink \/ SwitchSymlink
  \/ WriteInactiveBegin \/ WriteInactiveEnd

SpecSetup == InitSetup /\ [][NextSetup]_vars

----------------------------------------------------------------------------
(* The change detector over fragments that are written, removed and        *)
(* renamed between fault-free refreshes.                                   *)

\* the build system renames a fragment: new path, same content
RenameFragment ==
  /\ pc = "idle" /\ hist.calls > 0 /\ hist.edits < MaxEdits
  /\ \E p \in DOMAIN frags, q \in Paths \ DOMAIN frags :
       frags' = [r \in (DOMAIN frags \ {p}) \cup {q} |->
                   IF r = q THEN frags[p] ELSE frags[r]]
  /\ hist' = Edited("rename")
  /\ UNCHANGED <<dirs, optVars, schedVars, fsVars, instVars, pc, loc>>

InitDetect ==
  /\ NewInstance
  /\ frags \in Trees
  /\ verbose \in BOOLEAN
  /\ deduplicate = "unset"
  /\ outputFile = 0
  /\ dirs = Dirs
  /\ shadowLink = "absent"

NextDetect ==
  \/ WriteFragment \/ RemoveFragment \/ RenameFragment
  \/ OnSuccess
  \/ SetupCheckTemp \/ OpenTemp \/ SetupCheckBackup \/ OpenBackup \/ Mkdir
  \/ SetupReadlinkShadow \/ SetupReadlinkMain
  \/ SetupCheckShadow \/ SetupSymlinkShadow \/ SetupCheckMain \/ SetupSymlinkMain
  \/ Scan \/ ReadCurrent \/ BranchOnFiles \/ Hash \/ ReadFragments \/ Transform
  \/ AfterPublish
  \/ CheckEmpty \/ PublishReadlink
  \/ WriteActiveBegin \/ WriteActiveEnd \/ SwitchUnlink \/ SwitchSymlink
  \/ WriteInactiveBegin \/ WriteInactiveEnd

SpecDetect == InitDetect /\ [][NextDetect]_vars

----------------------------------------------------------------------------
(* The first refresh over one fragment and more, up to one more than a     *)
(* batch of the read loop holds.                                           *)

BatchPaths == 1..(batchSize + 1)

BatchTrees == UNION {[1..n -> {<<1>>, <<2>>}] : n \in BatchPaths}

InitBatch ==
  /\ NewInstance
  /\ frags \in BatchTrees
  /\ verbose \in BOOLEAN
  /\ deduplicate = "unset"
  /\ outputFile = 0
  /\ dirs = Dirs
  /\ shadowLink = "absent"

NextBatch ==
  \/ FirstRefresh
  \/ SetupCheckTemp \/ OpenTemp \/ SetupCheckBackup \/ OpenBackup \/ Mkdir
  \/ SetupReadlinkShadow \/ SetupReadlinkMain
  \/ SetupCheckShadow \/ SetupSymlinkShadow \/ SetupCheckMain \/ SetupSymlinkMain
  \/ Scan \/ ReadCurrent \/ BranchOnFiles \/ Hash \/ ReadFragments \/ Transform
  \/ AfterPublish
  \/ CheckEmpty \/ PublishReadlink
  \/ WriteActiveBegin \/ WriteActiveEnd \/ SwitchUnlink \/ SwitchSymlink
  \/ WriteInactiveBegin \/ WriteInactiveEnd

SpecBatch == InitBatch /\ [][NextBatch]_vars

----------------------------------------------------------------------------
(* Termination signals (lines 398-403): the handler of SIGINT, SIGTERM and  *)
(* SIGQUIT awaits cleanup() and then calls process.exit(0).  The handler    *)
(* starts between two steps of the event loop and runs beside a refresh     *)
(* that is suspended at an await.                                           *)

Signal ==
  /\ process.st = "running"
  /\ pc \in FaultPoints \cup {"idle"}
  /\ parked.pc = "idle"
  /\ parked' = [pc |-> pc, loc |-> loc]
  /\ pc' = "L256"
  /\ loc' = [Loc0 EXCEPT !.op = "signal", !.after = "L401"]
  /\ process' = [st |-> "signalled", calls |-> hist.calls]
  /\ UNCHANGED <<frags, dirs, optVars, fsVars, instVars, hist>>

\* line 401: process.exit(0); nothing of the process runs after it
ProcessExit ==
  /\ pc = "L401"
  /\ pc' = "exited"
  /\ process' = [process EXCEPT !.st = "exited"]
  /\ UNCHANGED <<frags, dirs, optVars, fsVars, instVars, loc, hist, parked>>

\* close() of a handle rejects
CloseRejects == pc \in {"L257", "L261"} /\ InjectFault

\* a step of the signal handler
HandlerStep ==
  /\ loc.op = "signal"
  /\ \/ CleanupCheckTemp \/ CloseTemp \/ CleanupCheckBackup \/ CloseBackup
     \/ CloseRejects \/ CleanupReturn \/ ProcessExit

\* the event loop turns to the signal handler
ResumeHandler == parked.loc.op = "signal" /\ Yield

InitSignal ==
  /\ NewInstance
  /\ frags \in [Paths -> FragTexts \ {<<>>}]
  /\ verbose \in BOOLEAN
  /\ deduplicate = "unset"
  /\ outputFile = 0
  /\ dirs = Dirs
  /\ shadowLink = "absent"

NextSignal ==
  \/ OnSuccess \/ Signal \/ Yield \/ ProcessExit \/ CloseRejects
  \/ SetupCheckTemp \/ OpenTemp \/ SetupCheckBackup \/ OpenBackup \/ Mkdir
  \/ SetupReadlinkShadow \/ SetupReadlinkMain
  \/ SetupCheckShadow \/ SetupSymlinkShadow \/ SetupCheckMain \/ SetupSymlinkMain
  \/ CleanupCheckTemp \/ CloseTemp \/ CleanupCheckBackup \/ CloseBackup \/ CleanupReturn
  \/ Scan \/ ReadCurrent \/ BranchOnFiles \/ Hash \/ ReadFragments \/ Transform
  \/ AfterPublish
  \/ CheckEmpty \/ PublishReadlink
  \/ WriteActiveBegin \/ WriteActiveEnd \/ SwitchUnlink \/ SwitchSymlink
  \/ WriteInactiveBegin \/ WriteInactiveEnd

\* a step of the call in progress (not the arrival of a call or of a signal)
RunningStep == pc # "idle" /\ process' = process /\ NextSignal

\* the event loop runs every continuation that is ready: the call in progress
\* goes on, the handler is resumed while it has steps to take and takes them
SpecSignal ==
  /\ InitSignal /\ [][NextSignal]_vars
  /\ WF_vars(RunningStep) /\ SF_vars(HandlerStep) /\ SF_vars(ResumeHandler)

----------------------------------------------------------------------------
(* Properties *)

Returned(op) == pc = "idle" /\ hist.op = op /\ hist.outcome = "returned"

\* the call before the last one was a refresh that returned
AfterRefresh == hist.prev.op = "onSuccess" /\ hist.prev.outcome = "returned"

RulesIn(text) == {text[i] : i \in 1..Len(text)} \ {NL}
RulesInTree(tree) == UNION {RulesIn(tree[p]) : p \in DOMAIN tree}

\* C1: while a fault-free refresh that found a complete, non-empty artifact
\* publishes changed content, a reader of mainStylesLink gets the complete
\* prior artifact or the complete new one at every step of the publish.
C1_ReaderSeesOldOrNew ==
  (/\ hist.op = "onSuccess" /\ pc \in PublishLabels /\ loc.caller = "changed"
   /\ hist.faults = 0
   /\ hist.pre.read.st = "ok" /\ ~IsBlank(hist.pre.read.text))
  => ReadMain \in {hist.pre.read, Complete(loc.newContent)}

\* C2: in runs of refresh and clear calls in which single filesystem calls
\* fail (no kill), shadowLink never points at a buffer whose last writeFile
\* was started and not completed.
C2_ShadowNeverPartial ==
  (hist.kills = 0 /\ shadowLink \in Buffers) => ~buf[shadowLink].partial

\* C3: a refresh that follows a refresh with no fragment change in between
\* leaves the content read through mainStylesLink as it was and starts no
\* writeFile, whatever verbose is.
C3_SecondRefreshWritesNothing ==
  (/\ Returned("onSuccess") /\ AfterRefresh /\ hist.prev.change = {}
   /\ hist.faults = 0 /\ shadowLink # "regular")
  => (ReadMain = hist.pre.read /\ hist.writes = 0)

\* the second of two refresh calls has returned, a fragment was modified
\* between them and the fragments merge to a non-empty text
C4_Pre ==
  /\ Returned("onSuccess") /\ AfterRefresh /\ "modify" \in hist.prev.change
  /\ hist.change = {} /\ hist.faults = 0 /\ shadowLink # "regular"
  /\ DOMAIN frags # {} /\ ~IsBlank(MergeOf(frags))

\* C4: when a fragment's content was changed between two refresh calls and
\* the merge of the fragments is not empty, the content read through
\* mainStylesLink after the second refresh is that merge.
C4_ChangeIsPublished == C4_Pre => ReadMain = Complete(MergeOf(frags))

C4_Witness == C4_Pre /\ hist.pre.read.st = "ok" /\ ~IsBlank(hist.pre.read.text)
              /\ ReadMain # hist.pre.read

\* the second of two refresh calls has returned and fragments were removed
\* between them
C5_Removed ==
  /\ Returned("onSuccess") /\ AfterRefresh /\ hist.prev.change = {"remove"}
  /\ hist.change = {} /\ hist.faults = 0 /\ shadowLink # "regular"

C5_Pre == C5_Removed /\ DOMAIN frags # {} /\ ~IsBlank(MergeOf(frags))

\* C5 as stated: after a refresh, the removal of fragments and a second
\* refresh, the artifact holds no rule that the remaining fragments do not
\* contribute.
C5_Original ==
  C5_Removed => (ReadMain.st = "ok" /\ RulesIn(ReadMain.text) \subseteq RulesInTree(frags))

\* C5 as amended: after a refresh, the removal of fragments and a second
\* refresh, the artifact is the merge of the remaining fragments and holds
\* no rule they do not contribute, provided a fragment remains and the merge
\* of the remaining fragments is not empty.
C5_RemovalIsPublished ==
  C5_Pre => (/\ ReadMain = Complete(MergeOf(frags))
             /\ RulesIn(ReadMain.text) \subseteq RulesInTree(frags))

C5_Witness == C5_Pre /\ ~(RulesIn(hist.pre.read.text) \subseteq RulesInTree(frags))
              /\ RulesIn(ReadMain.text) \subseteq RulesInTree(frags)

\* a refresh in which no call failed has found no fragment and a non-empty
\* published artifact
C6_Pre ==
  /\ Returned("onSuccess") /\ DOMAIN frags = {} /\ hist.change = {}
  /\ hist.callFaults = {}
  /\ hist.pre.read.st = "ok" /\ ~IsBlank(hist.pre.read.text)

\* C6: a refresh that finds no fragment while a non-empty artifact is
\* published leaves the content read through mainStylesLink as it was.
C6_EmptyScanPreserves == C6_Pre => ReadMain = hist.pre.read

C6_Witness == C6_Pre /\ hist.writes > 0 /\ ReadMain = hist.pre.read

\* a clear in which no call failed has returned; it found no shadowLink, or
\* mainStylesLink resolving through shadowLink to one of the buffers
C7_Pre ==
  /\ Returned("onClear") /\ hist.callFaults = {}
  /\ \/ hist.pre.shadow = "absent"
     \/ hist.pre.shadow \in Buffers /\ hist.pre.read.st # "enoent"

\* C7: after a clear in which no filesystem call failed, the content read
\* through mainStylesLink is empty, whether the clear found no shadowLink,
\* or shadowLink at the backup buffer, or shadowLink at the temp buffer.
C7_ClearEmpties == C7_Pre => ReadMain = Complete(<<>>)

C7_Witness == C7_Pre /\ hist.pre.shadow = "temp" /\ ~IsBlank(hist.pre.read.text)
              /\ ReadMain = Complete(<<>>)

C7_WitnessNoLinks == C7_Pre /\ hist.pre.shadow = "absent" /\ ReadMain = Complete(<<>>)

C7_WitnessBackup == C7_Pre /\ hist.pre.shadow = "backup"
                    /\ ~IsBlank(hist.pre.read.text) /\ ReadMain = Complete(<<>>)

\* the calls of the scan, the hashing, the fragment read and the transform
ReadSteps == {"L278", "L303", "L318", "L324"}

\* a refresh that found a published artifact has returned after one of its
\* read steps failed
C8_Pre ==
  /\ Returned("onSuccess") /\ hist.callFaults # {} /\ hist.callFaults \subseteq ReadSteps
  /\ hist.pre.read.st = "ok"

\* C8: a refresh that starts with a published artifact and whose scan,
\* hashing, fragment read or transform fails starts no writeFile and leaves
\* shadowLink, the content read through mainStylesLink, lastKnownFiles and
\* lastKnownHash as they were.
C8_FailedReadKeepsArtifact ==
  C8_Pre => (/\ hist.writes = 0
             /\ shadowLink = hist.pre.shadow
             /\ ReadMain = hist.pre.read
             /\ lastKnownFiles = hist.pre.files
             /\ lastKnownHash = hist.pre.hash)

C8_Witness == C8_Pre /\ ~IsBlank(hist.pre.read.text) /\ hist.pre.files # {}
              /\ "modify" \in hist.prev.change /\ ReadMain = hist.pre.read

C9_WitnessRegular == pc = "idle" /\ hist.outcome = "returned" /\ hist.op = "onSuccess"
                     /\ shadowLink = "regular" /\ hist.writes > 0

\* a refresh in which no call failed has returned; the call before it was
\* killed during its publish; the fragments merge to a non-empty text
C10_Pre ==
  /\ Returned("onSuccess") /\ hist.prev.outcome = "killed"
  /\ hist.callFaults = {} /\ hist.change = {} /\ shadowLink # "regular"
  /\ DOMAIN frags # {} /\ ~IsBlank(MergeOf(frags))

\* C10: when the process was killed between two steps of a publish, the
\* next refresh by a new instance over fragments with a non-empty merge ends
\* with mainStylesLink at shadowLink, shadowLink at a buffer and that buffer
\* holding the complete merge.
C10_RecoversAfterKill ==
  C10_Pre => (/\ mainStylesLink = "shadow"
              /\ shadowLink \in Buffers
              /\ buf[shadowLink] = Written(MergeOf(frags)))

C10_Witness == C10_Pre /\ hist.pre.read.st = "enoent" /\ hist.pre.shadow = "absent"
               /\ ReadMain = Complete(MergeOf(frags))

\* C11: when all of several overlapping refresh and clear calls have
\* returned (no filesystem call failed on its own), mainStylesLink resolves
\* through shadowLink to a buffer that holds, complete and unmixed, a content
\* that one of these calls handed to writeFile.
C11_OverlapEndsComplete ==
  (pc = "idle" /\ parked.pc = "idle" /\ hist.contents # {})
  => (ReadMain.st = "ok" /\ ReadMain.text \in hist.contents)

\* a dispose in which no close failed is over
C12_Pre == pc = "idle" /\ hist.op = "dispose" /\ hist.callFaults = {}

\* the dispose found no open handle: it is the first call of the instance,
\* or it follows a dispose in which no close failed
C12_NothingOpen ==
  \/ hist.calls = 1
  \/ hist.prev.op = "dispose" /\ hist.prev.outcome = "returned" /\ hist.prev.clean

\* C12: a dispose in which no close fails returns normally and leaves both
\* handle references null; a dispose that follows a dispose, or that is the
\* first call of the instance, closes no handle.
C12_DisposeReleases ==
  C12_Pre => (/\ hist.outcome = "returned"
              /\ tempFileHandle = "null" /\ backupFileHandle = "null"
              /\ C12_NothingOpen => hist.closes = 0)

C12_Witness == C12_Pre /\ hist.closes = 2 /\ hist.prev.op = "onSuccess"
               /\ tempFileHandle = "null" /\ backupFileHandle = "null"

C12_WitnessAgain == C12_Pre /\ hist.prev.op = "dispose" /\ hist.calls = 3
                    /\ hist.closes = 0 /\ hist.outcome = "returned"

\* the process has exited; no close rejected and no call was started after
\* the signal had arrived
C13_Pre ==
  process.st = "exited" /\ hist.faults = 0 /\ hist.calls = process.calls

\* C13: after a termination signal the process exits, also when a close
\* rejects; when it exits, cleanup has closed the handles (no reference is
\* held, provided no close rejected and no call was started after the
\* signal); after the exit no step of the instance is taken.
C13_SignalReleasesThenExits ==
  /\ [](C13_Pre => (tempFileHandle = "null" /\ backupFileHandle = "null"))
  /\ (process.st = "signalled") ~> (process.st = "exited")
  /\ [][process.st # "exited"]_vars

C13_Witness == process.st = "exited" /\ hist.callFaults \cap {"L257", "L261"} # {}
               /\ parked.pc \in PublishLabels

C13_WitnessClosed == C13_Pre /\ hist.closes = 2 /\ parked.pc # "idle"

\* the first refresh has returned and has scanned fragments
FirstRefreshDone ==
  Returned("onSuccess") /\ hist.calls = 1 /\ getAllFiles(frags) # <<>>

\* C14: the deduplicate option selects the merge: with deduplicate = false
\* the artifact is the plain concatenation of the fragments, with
\* deduplicate = true or unset it is the transform of the concatenation.
C14_DeduplicateSelects ==
  FirstRefreshDone =>
    ReadMain = Complete(IF deduplicate = "false"
                        THEN combinedContent(getAllFiles(frags), frags)
                        ELSE MergeOf(frags))

UnderNodeModules(p) == "node_modules" \in Range(dirOf(p))

\* no rule of a file under node_modules is in the artifact
C16_NotInArtifact ==
  \A p \in DOMAIN frags :
    UnderNodeModules(p) => RulesIn(frags[p]) \cap RulesIn(ReadMain.text) = {}

\* C16 as stated: the scanned set is exactly the files with a matching name
\* that lie under no node_modules directory.
C16_Original ==
  /\ pc = "L292" =>
       Range(loc.moduleFiles) =
         {p \in DOMAIN frags : Matches(p) /\ ~UnderNodeModules(p)}
  /\ C16_NotInArtifact

\* C16: no file under a directory named node_modules, at any depth, is
\* scanned or contributes to the artifact; every other regular file whose
\* name matches the pattern, at any depth, is scanned, except the file that
\* the outputFile option names.
C16_ScanSkipsNodeModules ==
  /\ pc = "L292" =>
       Range(loc.moduleFiles) =
         {p \in DOMAIN frags :
            Matches(p) /\ ~UnderNodeModules(p) /\ p # outputFile}
  /\ C16_NotInArtifact

C16_Witness ==
  /\ pc = "L292"
  /\ {101, 102, 105, 104, 107} \subseteq DOMAIN frags /\ outputFile = 107
  /\ Range(loc.moduleFiles) = {1, 2, 103}

C16_WitnessArtifact ==
  /\ FirstRefreshDone /\ {101, 102, 105} \subseteq DOMAIN frags
  /\ ReadMain.st = "ok" /\ RulesIn(ReadMain.text) # {}

\* the first refresh has returned; it scanned fragments at the root and in
\* subdirectories
C17_Pre ==
  /\ FirstRefreshDone
  /\ \E p, q \in Range(getAllFiles(frags)) : dirOf(p) = <<>> /\ dirOf(q) # <<>>

Occurrences(text, r) == Cardinality({i \in 1..Len(text) : text[i] = r})

C15_VerboseFreeControl ==
  pc = "L303" =>
    LET changed == hasChanged(loc.moduleFiles,
                              calculateHash(loc.moduleFiles, frags),
                              lastKnownFiles, lastKnownHash)
    IN branchAfterHash(TRUE, changed, loc.currentContent)
         = branchAfterHash(FALSE, changed, loc.currentContent)

\* C18: after a fault-free sequence of serialized calls that ends with a
\* refresh over fragments whose merge is not empty, a reader of
\* mainStylesLink gets the merge of the current fragments; so a refresh
\* after a clear restores the artifact.
C18_RefreshRestores ==
  (/\ Returned("onSuccess") /\ hist.faults = 0 /\ hist.kills = 0
   /\ hist.pre.shadow \in Buffers \cup {"absent"} /\ hist.change = {}
   /\ DOMAIN frags # {} /\ ~IsBlank(MergeOf(frags)))
  => ReadMain = Complete(MergeOf(frags))

\* a step that changes what the instance remembers (a kill ends the
\* instance, the next one starts with nothing remembered)
C19_Remembers ==
  /\ <<lastKnownFiles, lastKnownHash>>' # <<lastKnownFiles, lastKnownHash>>
  /\ hist'.kills = hist.kills

\* C19: lastKnownHash and lastKnownFiles change only in a refresh whose
\* publish of merged content returned success, and are then set together
\* to the fingerprint and the file set that this call scanned; no step of
\* clear, of dispose or of a refresh whose publish failed or was skipped
\* changes them.
C19_RememberedOnlyOnSuccess ==
  [][C19_Remembers =>
       /\ hist.op = "onSuccess" /\ pc = "L336"
       /\ loc.caller = "changed" /\ loc.success
       /\ lastKnownFiles' = Range(loc.moduleFiles)
       /\ lastKnownHash' = loc.currentHash
       /\ loc.moduleFiles = getAllFiles(frags)
       /\ loc.currentHash = calculateHash(loc.moduleFiles, frags)]_vars

\* a refresh has replaced a fingerprint remembered before
C19_Witness ==
  /\ Returned("onSuccess") /\ hist.pre.files # {}
  /\ lastKnownHash # hist.pre.hash /\ lastKnownFiles # hist.pre.files
  /\ hist.kills = 0

\* atomicStyleUpdate is about to return true and its readlink of shadowLink
\* had succeeded
C20_Pre == pc = "L336" /\ loc.success /\ loc.currentTarget # "none"

\* C20: a publish that returns success after it could read shadowLink
\* leaves shadowLink at the buffer it did not point at before, and both
\* buffers hold exactly the published content.
C20_PublishSwitches ==
  C20_Pre =>
    /\ shadowLink \in Buffers /\ shadowLink # loc.currentTarget
    /\ \A b \in Buffers : buf[b] = Written(loc.newContent)

\* a second switch: back to the buffer of the publish before
C20_Witness ==
  /\ C20_Pre /\ loc.currentTarget = "temp" /\ shadowLink = "backup"
  /\ ~IsBlank(loc.newContent) /\ hist.faults = 0 /\ hist.kills = 0

\* atomicStyleUpdate returns after its unlink (230) or its symlink (231) of
\* shadowLink was the one call that failed
C21_Pre ==
  /\ pc = "L336" /\ loc.currentTarget \in Buffers
  /\ hist.callFaults # {} /\ hist.callFaults \subseteq {"L230", "L231"}

\* C21: when the link-replace step of a publish fails and nothing else
\* does, the publish returns false and shadowLink points where it pointed
\* before the call.
C21_RollbackRestores ==
  C21_Pre => (~loc.success /\ shadowLink = loc.currentTarget)

\* a step of a publish that has read shadowLink
C22_InReadablePublish == pc \in PublishLabels /\ loc.currentTarget # "none"

\* C22: no step of a publish that found shadowLink readable creates,
\* removes or re-points mainStylesLink; and mainStylesLink, where the
\* plugin has created it, points at shadowLink and never at a buffer.
C22_MainLinkFixed ==
  /\ [][C22_InReadablePublish => mainStylesLink' = mainStylesLink]_vars
  /\ [](mainStylesLink \in {"absent", "shadow"})

\* a publish over a readable shadowLink returns true, mainStylesLink made
\* by an earlier call
C22_Witness ==
  /\ pc = "L336" /\ loc.success /\ loc.currentTarget \in Buffers
  /\ shadowLink # loc.currentTarget /\ mainStylesLink = "shadow"

\* the same with no mainStylesLink before and after
C22_WitnessAbsent ==
  /\ pc = "L336" /\ loc.success /\ loc.currentTarget # "none"
  /\ mainStylesLink = "absent"

\* setupInitialFiles has returned: onSuccess goes on with the scan
SetupReturned == hist.op = "onSuccess" /\ pc = "L278"

\* C23: from a state in which each link is absent, dangling or as the
\* plugin creates it, a setup that returns without error leaves both
\* buffers existing, shadowLink resolving to an existing file and
\* mainStylesLink resolving through shadowLink; a link found dangling has
\* been replaced, shadowLink by a link to backupFile, mainStylesLink by a
\* link to shadowLink.
C23_SetupRepairsLinks ==
  SetupReturned =>
    /\ \A b \in Buffers : buf[b].exists
    /\ ShadowResolves /\ shadowLink \in Buffers
    /\ MainResolves /\ mainStylesLink = "shadow"
    /\ hist.pre.shadow = "dangling" => shadowLink = "backup"

\* the first setup found both links dangling
C23_Witness ==
  /\ SetupReturned /\ hist.calls = 1
  /\ hist.pre.shadow = "dangling" /\ hist.pre.main = "dangling"
  /\ shadowLink = "backup" /\ mainStylesLink = "shadow"

\* the first setup found the links of an earlier run and no temp buffer
C23_WitnessValid ==
  /\ SetupReturned /\ hist.calls = 1
  /\ hist.pre.shadow = "temp" /\ hist.pre.main = "shadow"
  /\ hist.pre.read.st = "enoent" /\ shadowLink = "temp"

\* C24: a first refresh over a target whose buffer directory or link
\* directory does not exist yet creates the missing directories; its setup
\* completes with both buffers and both links present.
C24_SetupCreatesDirs ==
  (Returned("onSuccess") /\ hist.calls = 1 /\ hist.faults = 0)
  => (/\ dirs = Dirs
      /\ \A b \in Buffers : buf[b].exists
      /\ shadowLink # "absent" /\ mainStylesLink # "absent")

\* setupInitialFiles is about to throw its error on (line 197) and no
\* close() of its cleanup has rejected
C25_Pre ==
  /\ hist.op = "onSuccess" /\ pc = "L197"
  /\ hist.callFaults \cap {"L257", "L261"} = {}

\* C25: when setup fails after it has opened one or both handles, the
\* handles opened so far are closed and their references cleared before the
\* error is thrown on: no handle is held after a failed setup.
C25_FailedSetupReleases ==
  C25_Pre => (tempFileHandle = "null" /\ backupFileHandle = "null")

\* setup failed with both handles open, with one handle open
C25_Witness == C25_Pre /\ hist.closes = 2
C25_WitnessOne == C25_Pre /\ hist.closes = 1 /\ "L134" \in hist.callFaults

\* the three ways in which the scanned fragments differ from what the
\* instance remembers, taken at line 303
C26_Differs ==
  \/ calculateHash(loc.moduleFiles, frags) # lastKnownHash
  \/ Len(loc.moduleFiles) # Cardinality(lastKnownFiles)
  \/ Range(loc.moduleFiles) \ lastKnownFiles # {}

\* since the refresh before, which published, fragments were renamed and
\* nothing else was done: a fragment now has a name that is not remembered
C26_Renamed ==
  /\ hist.prev.op = "onSuccess" /\ hist.prev.change = {"rename"}
  /\ lastKnownFiles # {} /\ DOMAIN frags # lastKnownFiles

\* C26: a refresh over a non-empty fragment set goes on to merge (treats
\* the input as changed) exactly when the fingerprint differs from the
\* remembered one, or the number of scanned fragments differs from the size
\* of the remembered set, or a scanned path is not in the remembered set;
\* the first refresh of an instance and a refresh after a rename do.
C26_ChangedExactly ==
  [][pc = "L303" =>
       /\ (pc' = "L318") <=> C26_Differs
       /\ hist.calls = 1 => pc' = "L318"
       /\ C26_Renamed => pc' = "L318"]_vars

\* a refresh merges after a rename that left the fingerprint as it was
C26_Witness ==
  /\ pc = "L318" /\ C26_Renamed
  /\ loc.currentHash = lastKnownHash
  /\ Len(loc.moduleFiles) = Cardinality(lastKnownFiles)

\* a refresh that found no difference
C26_WitnessSame ==
  /\ hist.op = "onSuccess" /\ hist.calls = 2 /\ hist.prev.change = {}
  /\ lastKnownFiles # {} /\ pc \in {"L204", "idle"} /\ hist.writes = 0
  /\ loc.caller \in {"preserve", "none"} /\ hist.prev.op = "onSuccess"

\* C27: the text handed to the transform is the contents of the scanned
\* fragments in scan order with exactly one newline between every two
\* consecutive fragments, for every number of fragments.
C27_OneNewlineBetween ==
  pc = "L324" =>
    loc.combined =
      Join([i \in 1..Len(loc.moduleFiles) |-> frags[loc.moduleFiles[i]]])

----------------------------------------------------------------------------
(* Disposal beside termination signals: dispose and the signal handler     *)
(* both run cleanup, and a cleanup that awaits a close lets the other      *)
(* start.                                                                   *)

NextClose == NextSignal \/ Dispose

SpecClose == InitSignal /\ [][NextClose]_vars

\* two cleanups await the close of one handle: close was invoked twice on it
C28_ClosedTwice ==
  \/ pc = "L257" /\ parked.pc = "L257"
  \/ pc = "L261" /\ parked.pc = "L261"

\* every cleanup that was started is over: the process has exited (and no
\* call was started after the signal), or dispose has returned and no other
\* call is suspended
C28_Disposed ==
  \/ process.st = "exited" /\ hist.calls = process.calls
  \/ process.st = "running" /\ Returned("dispose") /\ parked.pc = "idle"

\* C28: each opened handle is closed exactly once, however dispose calls
\* and signal handlers interleave and also when a close rejects: close is
\* never invoked twice on one handle, and when the cleanups are over no
\* handle that was opened is still held.
C28_ClosedExactlyOnce ==
  /\ ~C28_ClosedTwice
  /\ C28_Disposed => (tempFileHandle = "null" /\ backupFileHandle = "null")

====
